---------------------------- MODULE Spec2Model ----------------------------
(***************************************************************************)
(* Model of the NSE stock breakout scanner API (src/app.py).               *)
(*                                                                         *)
(* Text is a sequence of one-character strings, so that split, strip,      *)
(* upper, substring search and replace are computed character by           *)
(* character.  A float is a fixed-point number holding Scale units per     *)
(* 1.0; the RSI chain, which divides by a value that can be zero, carries  *)
(* the IEEE special values as well (Fin, Inf, NaN below).                  *)
(***************************************************************************)
EXTENDS Integers, Sequences, FiniteSets, TLC

VARIABLES DEFAULT_STOCKS, request, calls, response, clock

vars == <<DEFAULT_STOCKS, request, calls, response, clock>>

(***************************************************************************)
(* Bounds of the model.                                                    *)
(***************************************************************************)
\* fixed-point units per 1.0
Scale == 1000
\* longest raw `symbols` parameter enumerated character by character
MaxLen == 5
\* longest sequence of provider answers; it is repeated cyclically over the
\* symbols of one request
MaxPattern == 2
\* number of scan requests served in one behaviour
MaxClock == 2
\* number of trailing close-to-close changes drawn freely
TailLen == 2
\* number of changes before the tail that follow one common trend
TrendLen == 14
\* close of the flat opening stretch of a series
BaseClose == 100
\* volume of every bar but the last two
BaseVolume == 1000

(***************************************************************************)
(* Program constants.                                                      *)
(***************************************************************************)
MinBars == 50
RsiPeriod == 14
VolumeWindow == 20
DefaultMinSignals == 2

None == [kind |-> "None"]

(***************************************************************************)
(* Text.                                                                   *)
(***************************************************************************)
Lowercase == <<"a", "b", "c", "d", "e", "f", "g", "h", "i", "j", "k", "l", "m",
               "n", "o", "p", "q", "r", "s", "t", "u", "v", "w", "x", "y", "z">>

Uppercase == <<"A", "B", "C", "D", "E", "F", "G", "H", "I", "J", "K", "L", "M",
               "N", "O", "P", "Q", "R", "S", "T", "U", "V", "W", "X", "Y", "Z">>

Whitespace == {" ", "\t", "\n", "\r"}

\* str.upper, one character
UpperChar(c) ==
    IF \E i \in 1..Len(Lowercase) : Lowercase[i] = c
    THEN Uppercase[CHOOSE i \in 1..Len(Lowercase) : Lowercase[i] = c]
    ELSE c

\* str.upper
Upper(s) == [i \in 1..Len(s) |-> UpperChar(s[i])]

RECURSIVE LStrip(_)
LStrip(s) ==
    IF s # <<>> /\ Head(s) \in Whitespace THEN LStrip(Tail(s)) ELSE s

RECURSIVE RStrip(_)
RStrip(s) ==
    IF s # <<>> /\ s[Len(s)] \in Whitespace
    THEN RStrip(SubSeq(s, 1, Len(s) - 1))
    ELSE s

\* str.strip
Strip(s) == RStrip(LStrip(s))

\* sub occurs in s at position i
MatchAt(s, sub, i) ==
    /\ i >= 1
    /\ i + Len(sub) - 1 <= Len(s)
    /\ SubSeq(s, i, i + Len(sub) - 1) = sub

\* `sub in s`
Contains(s, sub) == \E i \in 1..(Len(s) + 1) : MatchAt(s, sub, i)

\* str.split(sep) for a one-character separator: the pieces between the
\* separators, the empty ones included
RECURSIVE SplitFrom(_, _, _)
SplitFrom(s, sep, piece) ==
    IF s = <<>> THEN <<piece>>
    ELSE IF Head(s) = sep
         THEN <<piece>> \o SplitFrom(Tail(s), sep, <<>>)
         ELSE SplitFrom(Tail(s), sep, Append(piece, Head(s)))

Split(s, sep) == SplitFrom(s, sep, <<>>)

\* str.replace(old, new): every non-overlapping occurrence, left to right
RECURSIVE Replace(_, _, _)
Replace(s, old, new) ==
    IF s = <<>> THEN <<>>
    ELSE IF MatchAt(s, old, 1)
         THEN new \o Replace(SubSeq(s, Len(old) + 1, Len(s)), old, new)
         ELSE <<Head(s)>> \o Replace(Tail(s), old, new)

Suffix == <<".", "N", "S">>

DefaultStockList ==
    << <<"R", "E", "L", "I", "A", "N", "C", "E", ".", "N", "S">>,
       <<"T", "C", "S", ".", "N", "S">>,
       <<"H", "D", "F", "C", "B", "A", "N", "K", ".", "N", "S">>,
       <<"I", "N", "F", "Y", ".", "N", "S">>,
       <<"I", "C", "I", "C", "I", "B", "A", "N", "K", ".", "N", "S">>,
       <<"H", "I", "N", "D", "U", "N", "I", "L", "V", "R", ".", "N", "S">>,
       <<"I", "T", "C", ".", "N", "S">>,
       <<"S", "B", "I", "N", ".", "N", "S">>,
       <<"B", "H", "A", "R", "T", "I", "A", "R", "T", "L", ".", "N", "S">>,
       <<"K", "O", "T", "A", "K", "B", "A", "N", "K", ".", "N", "S">>,
       <<"L", "T", ".", "N", "S">>,
       <<"A", "X", "I", "S", "B", "A", "N", "K", ".", "N", "S">>,
       <<"A", "S", "I", "A", "N", "P", "A", "I", "N", "T", ".", "N", "S">>,
       <<"M", "A", "R", "U", "T", "I", ".", "N", "S">>,
       <<"H", "C", "L", "T", "E", "C", "H", ".", "N", "S">>,
       <<"W", "I", "P", "R", "O", ".", "N", "S">>,
       <<"U", "L", "T", "R", "A", "C", "E", "M", "C", "O", ".", "N", "S">>,
       <<"T", "I", "T", "A", "N", ".", "N", "S">>,
       <<"N", "E", "S", "T", "L", "E", "I", "N", "D", ".", "N", "S">>,
       <<"B", "A", "J", "F", "I", "N", "A", "N", "C", "E", ".", "N", "S">> >>

\* the symbols scanned for a raw `symbols` parameter; the empty text stands
\* for an absent parameter too (request.args.get('symbols', ''))
ParseSymbols(symbols_param, defaults) ==
    IF symbols_param # <<>>
    THEN LET pieces == Split(symbols_param, ",")
             symbols == [i \in 1..Len(pieces) |-> Upper(Strip(pieces[i]))]
         IN  IF ~ (\A i \in 1..Len(symbols) : Contains(symbols[i], Suffix))
             THEN [i \in 1..Len(symbols) |->
                      IF ~ Contains(symbols[i], Suffix)
                      THEN symbols[i] \o Suffix
                      ELSE symbols[i]]
             ELSE symbols
    ELSE defaults

(***************************************************************************)
(* Floats.  A finite value is a whole number of 1/Scale units; Inf carries *)
(* its sign in v.  Division follows IEEE 754 as numpy applies it to a      *)
(* Series: x/0 is an infinity for x # 0 and NaN for x = 0, without raising.*)
(***************************************************************************)
Fin(v) == [k |-> "fin", v |-> v]

Inf(sign) == [k |-> "inf", v |-> sign]

NaN == [k |-> "nan", v |-> 0]

Sign(n) == IF n > 0 THEN 1 ELSE IF n < 0 THEN -1 ELSE 0

FNeg(a) ==
    IF a.k = "nan" THEN NaN
    ELSE IF a.k = "inf" THEN Inf(-a.v) ELSE Fin(-a.v)

FAdd(a, b) ==
    IF a.k = "nan" \/ b.k = "nan" THEN NaN
    ELSE IF a.k = "inf" /\ b.k = "inf" THEN (IF a.v = b.v THEN a ELSE NaN)
    ELSE IF a.k = "inf" THEN a
    ELSE IF b.k = "inf" THEN b
    ELSE Fin(a.v + b.v)

FSub(a, b) == FAdd(a, FNeg(b))

\* FDiv with every division by zero giving NaN
FDivZeroIsNaN(a, b) ==
    IF a.k = "nan" \/ b.k = "nan" THEN NaN
    ELSE IF a.k = "inf" /\ b.k = "inf" THEN NaN
    ELSE IF a.k = "inf" THEN Inf(IF b.v < 0 THEN -a.v ELSE a.v)
    ELSE IF b.k = "inf" THEN Fin(0)
    ELSE IF b.v = 0 THEN NaN
    ELSE Fin((a.v * Scale) \div b.v)

FDiv(a, b) ==
    IF a.k = "nan" \/ b.k = "nan" THEN NaN
    ELSE IF a.k = "inf" /\ b.k = "inf" THEN NaN
    ELSE IF a.k = "inf" THEN Inf(IF b.v < 0 THEN -a.v ELSE a.v)
    ELSE IF b.k = "inf" THEN Fin(0)
    ELSE IF b.v = 0
         THEN (IF a.v = 0 THEN NaN ELSE Inf(Sign(a.v)))
         ELSE Fin((a.v * Scale) \div b.v)

\* a < b; every comparison with NaN is false
FLt(a, b) ==
    IF a.k = "nan" \/ b.k = "nan" THEN FALSE
    ELSE IF a.k = "inf" /\ b.k = "inf" THEN a.v < b.v
    ELSE IF a.k = "inf" THEN a.v < 0
    ELSE IF b.k = "inf" THEN b.v > 0
    ELSE a.v < b.v

\* round(x, 2) of a finite value, in hundredths: to the nearest hundredth,
\* an exact tie to the even one
Round2(v) ==
    LET q == (v * 100) \div Scale
        r == (v * 100) % Scale
    IN  IF 2 * r > Scale THEN q + 1
        ELSE IF 2 * r = Scale THEN q + (q % 2)
        ELSE q

\* round(x, 2) of a float: NaN and the infinities round to themselves
FRound2(a) == IF a.k = "fin" THEN Fin(Round2(a.v)) ELSE a

(***************************************************************************)
(* Indicators, over whole columns as pandas computes them.                 *)
(***************************************************************************)
\* data['Close'], in Scale units
CloseColumn(data) == [i \in 1..Len(data) |-> data[i].Close * Scale]

\* data['Volume'], whole shares
VolumeColumn(data) == [i \in 1..Len(data) |-> data[i].Volume]

\* Series.ewm(span=period, adjust=False).mean():
\*   y[1] = x[1],  y[t] = (1 - a) * y[t-1] + a * x[t]  with a = 2 / (period + 1)
RECURSIVE EwmAcc(_, _, _, _)
EwmAcc(xs, n, period, acc) ==
    IF Len(acc) = n THEN acc
    ELSE LET t == Len(acc) + 1
         IN  EwmAcc(xs, n, period,
                    Append(acc,
                           IF t = 1 THEN xs[1]
                           ELSE ((period - 1) * acc[t - 1] + 2 * xs[t])
                                    \div (period + 1)))

EwmMean(xs, period) == EwmAcc(xs, Len(xs), period, <<>>)

calculate_ema(data, period) == EwmMean(CloseColumn(data), period)

\* Series.diff(): the first entry has no predecessor and is NaN
Diff(xs) ==
    [i \in 1..Len(xs) |-> IF i = 1 THEN NaN ELSE Fin(xs[i] - xs[i - 1])]

RECURSIVE FSum(_, _, _)
FSum(fs, lo, hi) ==
    IF lo > hi THEN Fin(0) ELSE FAdd(fs[lo], FSum(fs, lo + 1, hi))

\* Series.rolling(window).mean(): NaN until the window is full
RollingMean(fs, window) ==
    [i \in 1..Len(fs) |->
        IF i < window THEN NaN
        ELSE LET total == FSum(fs, i - window + 1, i)
             IN  IF total.k = "fin" THEN Fin(total.v \div window) ELSE total]

calculate_rsi(data, period) ==
    LET delta == Diff(CloseColumn(data))
        \* delta.where(delta > 0, 0): NaN > 0 is false, so NaN becomes 0
        ups   == [i \in 1..Len(delta) |->
                     IF FLt(Fin(0), delta[i]) THEN delta[i] ELSE Fin(0)]
        downs == [i \in 1..Len(delta) |->
                     FNeg(IF FLt(delta[i], Fin(0)) THEN delta[i] ELSE Fin(0))]
        gain  == RollingMean(ups, period)
        loss  == RollingMean(downs, period)
    IN  [i \in 1..Len(delta) |->
            LET rs == FDiv(gain[i], loss[i])
            IN  FSub(Fin(100 * Scale),
                     FDiv(Fin(100 * Scale), FAdd(Fin(Scale), rs)))]

calculate_macd(data) ==
    LET exp1 == EwmMean(CloseColumn(data), 12)
        exp2 == EwmMean(CloseColumn(data), 26)
        macd == [i \in 1..Len(data) |-> exp1[i] - exp2[i]]
    IN  [macd |-> macd, signal |-> EwmMean(macd, 9)]

RECURSIVE Sum(_, _, _)
Sum(xs, lo, hi) == IF lo > hi THEN 0 ELSE xs[lo] + Sum(xs, lo + 1, hi)

\* Series.tail(n).mean(), in Scale units
TailMean(xs, n) ==
    LET lo == IF Len(xs) > n THEN Len(xs) - n + 1 ELSE 1
    IN  (Sum(xs, lo, Len(xs)) * Scale) \div (Len(xs) - lo + 1)

(***************************************************************************)
(* The data provider.  An answer either raises or describes the series     *)
(* returned: `bars` daily bars, closes flat at BaseClose, then TrendLen     *)
(* changes of `trend` each, then the changes of `tail`; every volume is    *)
(* BaseVolume but the last two.                                            *)
(***************************************************************************)
Raises == [raises |-> TRUE, bars |-> 0, trend |-> 0, tail |-> <<>>,
           prevVolume |-> 0, lastVolume |-> 0]

Series(bars, trend, tail, prevVolume, lastVolume) ==
    [raises |-> FALSE, bars |-> bars, trend |-> trend, tail |-> tail,
     prevVolume |-> prevVolume, lastVolume |-> lastVolume]

\* close[i] - close[i-1] of the series an answer describes
ChangeAt(answer, i) ==
    LET fromEnd == answer.bars - i
    IN  IF fromEnd < Len(answer.tail)
        THEN answer.tail[Len(answer.tail) - fromEnd]
        ELSE IF fromEnd < Len(answer.tail) + TrendLen THEN answer.trend ELSE 0

VolumeAt(answer, i) ==
    IF i = answer.bars THEN answer.lastVolume
    ELSE IF i = answer.bars - 1 THEN answer.prevVolume
    ELSE BaseVolume

RECURSIVE BarsAcc(_, _)
BarsAcc(answer, acc) ==
    IF Len(acc) = answer.bars THEN acc
    ELSE LET i == Len(acc) + 1
         IN  BarsAcc(answer,
                     Append(acc,
                            [Close  |-> IF i = 1 THEN BaseClose
                                        ELSE acc[i - 1].Close + ChangeAt(answer, i),
                             Volume |-> VolumeAt(answer, i)]))

\* stock.history(start=start_date, end=end_date), oldest bar first
History(answer) == BarsAcc(answer, <<>>)

(***************************************************************************)
(* analyze_stock                                                           *)
(***************************************************************************)
\* InsufficientData with the limit one bar too low
InsufficientDataOffByOne(hist) == Len(hist) = 0 \/ Len(hist) < MinBars - 1

InsufficientData(hist) == Len(hist) = 0 \/ Len(hist) < MinBars

\* hist.iloc[-1] once the indicator columns are added
LatestRow(hist) ==
    LET n    == Len(hist)
        macd == calculate_macd(hist)
    IN  [Close   |-> CloseColumn(hist)[n],
         Volume  |-> VolumeColumn(hist)[n],
         EMA_20  |-> calculate_ema(hist, 20)[n],
         EMA_50  |-> calculate_ema(hist, 50)[n],
         EMA_200 |-> calculate_ema(hist, 200)[n],
         RSI     |-> calculate_rsi(hist, RsiPeriod)[n],
         MACD    |-> macd.macd[n],
         Signal  |-> macd.signal[n]]

PriceAboveEma20(latest) == latest.Close > latest.EMA_20

BullishEmaAlignment(latest) ==
    latest.EMA_20 > latest.EMA_50 /\ latest.EMA_50 > latest.EMA_200

RsiInHealthyRange(latest) ==
    FLt(Fin(30 * Scale), latest.RSI) /\ FLt(latest.RSI, Fin(70 * Scale))

MacdBullishCrossover(latest) == latest.MACD > latest.Signal

\* hist['Volume'].tail(20).mean() * 1.5
VolumeThreshold(hist) ==
    (TailMean(VolumeColumn(hist), VolumeWindow) * 15) \div 10

\* HighVolumeBreakout with >= for >
HighVolumeBreakoutInclusive(latest, hist) ==
    latest.Volume * Scale >= VolumeThreshold(hist)

HighVolumeBreakout(latest, hist) ==
    latest.Volume * Scale > VolumeThreshold(hist)

\* Trigger without the increment of signal_count
TriggerWithoutCount(acc, rule, name) ==
    IF rule
    THEN [signals |-> Append(acc.signals, name), signal_count |-> acc.signal_count]
    ELSE acc

\* if <rule>: signals.append(name); signal_count += 1
Trigger(acc, rule, name) ==
    IF rule
    THEN [signals |-> Append(acc.signals, name),
          signal_count |-> acc.signal_count + 1]
    ELSE acc

Signals(latest, hist) ==
    LET s0 == [signals |-> <<>>, signal_count |-> 0]
        s1 == Trigger(s0, PriceAboveEma20(latest), "Price above EMA 20")
        s2 == Trigger(s1, BullishEmaAlignment(latest), "Bullish EMA alignment")
        s3 == Trigger(s2, RsiInHealthyRange(latest), "RSI in healthy range")
        s4 == Trigger(s3, MacdBullishCrossover(latest), "MACD bullish crossover")
    IN  Trigger(s4, HighVolumeBreakout(latest, hist), "High volume breakout")

\* the body of analyze_stock up to the return statement, which is all of it
\* that depends on the provider's answer alone: whether the lookup raised,
\* the local `latest` (None when the call returns before assigning it), the
\* signals and hist['Volume'].tail(20).mean()
Evaluate(answer) ==
    IF answer.raises
    THEN [raised |-> TRUE, latest |-> None, scored |-> None, avg_volume |-> 0]
    ELSE LET hist == History(answer)
         IN  IF InsufficientData(hist)
             THEN [raised |-> FALSE, latest |-> None, scored |-> None,
                   avg_volume |-> 0]
             ELSE LET latest == LatestRow(hist)
                  IN  [raised     |-> FALSE,
                       latest     |-> latest,
                       scored     |-> Signals(latest, hist),
                       avg_volume |-> TailMean(VolumeColumn(hist), VolumeWindow)]

\* the dictionary analyze_stock returns; price-like values in hundredths
Analysis(symbol, e, now) ==
    [symbol       |-> symbol,
     name         |-> Replace(symbol, Suffix, <<>>),
     price        |-> Round2(e.latest.Close),
     ema_20       |-> Round2(e.latest.EMA_20),
     ema_50       |-> Round2(e.latest.EMA_50),
     ema_200      |-> Round2(e.latest.EMA_200),
     rsi          |-> FRound2(e.latest.RSI),
     macd         |-> Round2(e.latest.MACD),
     macd_signal  |-> Round2(e.latest.Signal),
     volume       |-> e.latest.Volume,
     avg_volume   |-> e.avg_volume \div Scale,
     signals      |-> e.scored.signals,
     signal_count |-> e.scored.signal_count,
     timestamp    |-> now]

\* OnException returning an analysis without signals instead of None
OnExceptionAsAnalysis(symbol) ==
    [symbol |-> symbol, signals |-> <<>>, signal_count |-> 0]

\* the value returned when the lookup raises (except Exception: return None)
OnException(symbol) == None

\* one call of analyze_stock: the value it returns, and its local `latest`
Frame(symbol, e, now) ==
    IF e.raised
    THEN [latest |-> None, returned |-> OnException(symbol)]
    ELSE IF e.latest = None
         THEN [latest |-> None, returned |-> None]
         ELSE [latest |-> e.latest, returned |-> Analysis(symbol, e, now)]

(***************************************************************************)
(* The requests and provider answers enumerated.                           *)
(***************************************************************************)
Text(chars, maxLen) == UNION {[1..n -> chars] : n \in 0..maxLen}

Patterns(answers, maxLen) == UNION {[1..n -> answers] : n \in 1..maxLen}

Args(symbols, min_signals) == [symbols |-> symbols, min_signals |-> min_signals]

FlatTail == [i \in 1..TailLen |-> 0]

UpTail == [i \in 1..TailLen |-> 1]

DipTail == [i \in 1..TailLen |-> -3]

Flat == Series(MinBars, 0, FlatTail, BaseVolume, BaseVolume)

Rising == Series(MinBars, 1, UpTail, BaseVolume, BaseVolume)

Dipping == Series(MinBars + 1, 1, DipTail, BaseVolume, 3 * BaseVolume)

Empty == Series(0, 0, FlatTail, BaseVolume, BaseVolume)

\* the service as a whole: a few requests, answers of every kind
ServiceAnswers == { Raises, Empty, Flat, Rising, Dipping }

ServiceSymbols ==
    { <<>>,
      <<"a", ",", "b">>,
      <<"b", ".", "n", "s", ",", " ", "a", ",", "b">> }

ServiceMinSignals == { <<>>, <<0>>, <<4>>, <<6>> }

ServiceRequests ==
    { <<Args(s, m), p>> : s \in ServiceSymbols, m \in ServiceMinSignals,
                          p \in Patterns(ServiceAnswers, MaxPattern) }

\* the requests that follow the first one of a behaviour
FollowUpRequests ==
    { <<Args(s, <<>>), <<a>> >> : s \in ServiceSymbols, a \in { Raises, Rising } }

\* the request just served, if it was a scan, sent again
Repeated ==
    IF request.endpoint = "/breakout_scan"
    THEN { <<request.args, request.pattern>> }
    ELSE {}

\* one symbol, every series of the family
Trends == {-1, 0, 1}

Deltas == {-3, 0, 1, 4}

BarCounts == {0, MinBars - 1, MinBars, MinBars + 1}

PrevVolumes == {499, 500}

LastVolumes == {BaseVolume, 1500, 1501}

IndicatorAnswers ==
    { Raises } \cup
    { Series(n, t, tl, pv, lv) : n \in BarCounts, t \in Trends,
                                 tl \in [1..TailLen -> Deltas],
                                 pv \in PrevVolumes, lv \in LastVolumes }

IndicatorRequests ==
    { <<Args(<<"a">>, m), <<a>> >> : m \in { <<>>, <<-1>> }, a \in IndicatorAnswers }

\* every raw `symbols` text over a small alphabet; the provider fails
SymbolChars == {"n", "N", "S", ".", " ", ","}

SymbolRequests ==
    { <<Args(s, <<>>), <<Raises>> >> : s \in Text(SymbolChars, MaxLen) }

\* Evaluate over the answers of the service requests, worked out once; the
\* other answers are evaluated where they are used
Tabulated == [a \in ServiceAnswers |-> Evaluate(a)]

Evaluated(answer) ==
    IF answer \in ServiceAnswers THEN Tabulated[answer] ELSE Evaluate(answer)

(***************************************************************************)
(* breakout_scan                                                           *)
(***************************************************************************)
\* int(request.args.get('min_signals', 2)); the argument is <<>> when absent
\* and <<n>> when it reads as the integer n
MinSignals(arg) == IF arg = <<>> THEN DefaultMinSignals ELSE arg[1]

\* the provider's answer to the i-th lookup of a request
AnswerAt(pattern, i) == pattern[((i - 1) % Len(pattern)) + 1]

\* Qualifies without the threshold
QualifiesUnfiltered(analysis, min_signals) == analysis # None

\* if analysis and analysis['signal_count'] >= min_signals
Qualifies(analysis, min_signals) ==
    analysis # None /\ analysis.signal_count >= min_signals

\* NewResults keeping the list of the scan served before
StaleResults ==
    IF request.endpoint = "/breakout_scan" THEN response.results ELSE <<>>

\* results = []
NewResults == <<>>

\* ScanLoop skipping a symbol that occurred earlier in the list
RECURSIVE ScanLoopDeduplicated(_, _, _, _, _, _)
ScanLoopDeduplicated(symbols, i, min_signals, pattern, now, acc) ==
    IF i > Len(symbols) THEN acc
    ELSE IF \E j \in 1..(i - 1) : symbols[j] = symbols[i]
    THEN ScanLoopDeduplicated(symbols, i + 1, min_signals, pattern, now, acc)
    ELSE LET frame    == Frame(symbols[i], Evaluated(AnswerAt(pattern, i)), now)
             analysis == frame.returned
         IN  ScanLoopDeduplicated(symbols, i + 1, min_signals, pattern, now,
                      [results |-> IF analysis # None
                                      /\ analysis.signal_count >= min_signals
                                   THEN Append(acc.results, analysis)
                                   ELSE acc.results,
                       calls   |-> Append(acc.calls,
                                          [symbol |-> symbols[i],
                                           answer |-> AnswerAt(pattern, i),
                                           frame  |-> frame])])

\* for symbol in symbols: analysis = analyze_stock(symbol); if ...:
\* results.append(analysis).  acc.results is the list; acc.calls records each
\* call of analyze_stock made so far.
RECURSIVE ScanLoop(_, _, _, _, _, _)
ScanLoop(symbols, i, min_signals, pattern, now, acc) ==
    IF i > Len(symbols) THEN acc
    ELSE LET frame    == Frame(symbols[i], Evaluated(AnswerAt(pattern, i)), now)
             analysis == frame.returned
         IN  ScanLoop(symbols, i + 1, min_signals, pattern, now,
                      [results |-> IF Qualifies(analysis, min_signals)
                                   THEN Append(acc.results, analysis)
                                   ELSE acc.results,
                       calls   |-> Append(acc.calls,
                                          [symbol |-> symbols[i],
                                           answer |-> AnswerAt(pattern, i),
                                           frame  |-> frame])])

\* x goes behind every entry whose key is at least its own
RECURSIVE InsertDesc(_, _)
InsertDesc(sorted, x) ==
    IF sorted = <<>> THEN <<x>>
    ELSE IF Head(sorted).signal_count >= x.signal_count
         THEN <<Head(sorted)>> \o InsertDesc(Tail(sorted), x)
         ELSE <<x>> \o sorted

RECURSIVE SortFrom(_, _, _)
SortFrom(rs, i, sorted) ==
    IF i > Len(rs) THEN sorted
    ELSE SortFrom(rs, i + 1, InsertDesc(sorted, rs[i]))

\* x goes before every entry whose key is at most its own
RECURSIVE InsertDescFirst(_, _)
InsertDescFirst(sorted, x) ==
    IF sorted = <<>> THEN <<x>>
    ELSE IF Head(sorted).signal_count > x.signal_count
         THEN <<Head(sorted)>> \o InsertDescFirst(Tail(sorted), x)
         ELSE <<x>> \o sorted

RECURSIVE SortFirstFrom(_, _, _)
SortFirstFrom(rs, i, sorted) ==
    IF i > Len(rs) THEN sorted
    ELSE SortFirstFrom(rs, i + 1, InsertDescFirst(sorted, rs[i]))

\* SortResults with equal keys coming out in reverse order
SortResultsTiesReversed(rs) == SortFirstFrom(rs, 1, <<>>)

\* results.sort(key=lambda x: x['signal_count'], reverse=True): list.sort is
\* stable, and reverse=True keeps equal keys in their original order
SortResults(rs) == SortFrom(rs, 1, <<>>)

ScanResponse(symbols, min_signals, results, now) ==
    [status          |-> "success",
     scan_time       |-> now,
     stocks_scanned  |-> Len(symbols),
     breakouts_found |-> Len(results),
     min_signals     |-> min_signals,
     results         |-> results]

HomeResponse ==
    [status  |-> "online",
     name    |-> "NSE Stock Breakout Scanner API",
     version |-> "1.0",
     endpoints |-> {"/breakout_scan",
                    "/breakout_scan?symbols=SYMBOL1.NS,SYMBOL2.NS",
                    "/breakout_scan?min_signals=3"}]

\* GET /
home ==
    /\ request' = [endpoint |-> "/"]
    /\ response' = HomeResponse
    /\ calls' = <<>>
    /\ UNCHANGED <<DEFAULT_STOCKS, clock>>

\* GET /breakout_scan.  args are the query arguments, pattern the provider's
\* answers; the request is served at time clock + 1.
breakout_scan(args, pattern) ==
    LET now         == clock + 1
        min_signals == MinSignals(args.min_signals)
        symbols     == ParseSymbols(args.symbols, DEFAULT_STOCKS)
        scanned     == ScanLoop(symbols, 1, min_signals, pattern, now,
                                [results |-> NewResults, calls |-> <<>>])
        results     == SortResults(scanned.results)
    IN  /\ clock < MaxClock
        /\ clock' = now
        /\ request' = [endpoint |-> "/breakout_scan", args |-> args,
                       pattern |-> pattern]
        /\ calls' = scanned.calls
        /\ response' = ScanResponse(symbols, min_signals, results, now)
        /\ UNCHANGED DEFAULT_STOCKS

Init ==
    /\ DEFAULT_STOCKS = DefaultStockList
    /\ request = [endpoint |-> "none"]
    /\ calls = <<>>
    /\ response = None
    /\ clock = 0

(***************************************************************************)
(* Specifications.                                                         *)
(***************************************************************************)
Scan ==
    \E r \in (IF clock = 0 THEN ServiceRequests ELSE FollowUpRequests \cup Repeated) :
        breakout_scan(r[1], r[2])

Next == home \/ Scan

Spec == Init /\ [][Next]_vars

ScanOneSymbol ==
    /\ clock = 0
    /\ \E r \in IndicatorRequests : breakout_scan(r[1], r[2])

NextAnalyze == home \/ ScanOneSymbol

SpecAnalyze == Init /\ [][NextAnalyze]_vars

ScanSymbols ==
    /\ clock = 0
    /\ \E r \in SymbolRequests : breakout_scan(r[1], r[2])

NextParse == home \/ ScanSymbols

SpecParse == Init /\ [][NextParse]_vars

(***************************************************************************)
(* Properties.                                                             *)
(***************************************************************************)
IsScan == request.endpoint = "/breakout_scan"

Threshold == MinSignals(request.args.min_signals)

Results == response.results

Range(f) == {f[i] : i \in DOMAIN f}

\* the analyses returned to the calls of this request that reach its
\* threshold, in the order of the symbols
QualifyingInOrder ==
    LET ok == SelectSeq(calls, LAMBDA c : /\ c.frame.returned # None
                                          /\ c.frame.returned.signal_count >= Threshold)
    IN  [i \in 1..Len(ok) |-> ok[i].frame.returned]

WithCount(rs, n) == SelectSeq(rs, LAMBDA r : r.signal_count = n)

Copies(rs, r) == Cardinality({i \in 1..Len(rs) : rs[i] = r})

\* C1: results is ordered by non-increasing signal_count, and the entries of
\* equal signal_count stand in the order their symbols have in the input.
C1_StableDescendingOrder ==
    IsScan =>
        /\ \A i, j \in 1..Len(Results) :
              i < j => Results[i].signal_count >= Results[j].signal_count
        /\ \A n \in {r.signal_count : r \in Range(Results) \cup Range(QualifyingInOrder)} :
              WithCount(Results, n) = WithCount(QualifyingInOrder, n)

\* the default list scanned with answers alternating between a lower and a
\* higher score: the higher ones come first, each group in input order
C1_Witness ==
    /\ IsScan
    /\ request.args.symbols = <<>>
    /\ Len(Results) = 20
    /\ Results[1].signal_count > Results[11].signal_count
    /\ Results[1].symbol = DefaultStockList[2]
    /\ Results[2].symbol = DefaultStockList[4]
    /\ Results[11].symbol = DefaultStockList[1]
    /\ Results[12].symbol = DefaultStockList[3]
    /\ Results[11].signal_count = Results[12].signal_count

\* the lookup raised or returned no data
Failed(c) == c.answer.raises \/ c.answer.bars = 0

Survivors == SelectSeq(calls, LAMBDA c : ~ Failed(c))

\* the results of the same scan over the occurrences whose lookup did not
\* fail, each with the answer it got
WithoutFailures ==
    LET symbols == [i \in 1..Len(Survivors) |-> Survivors[i].symbol]
        pattern == [i \in 1..Len(Survivors) |-> Survivors[i].answer]
    IN  SortResults(ScanLoop(symbols, 1, Threshold, pattern, clock,
                             [results |-> <<>>, calls |-> <<>>]).results)

\* C2: a failed lookup never fails the scan: the status is 'success', the
\* failed symbols are counted in stocks_scanned and have no entry, results is
\* what the scan of the other symbols alone gives, and when every lookup
\* fails results is empty and breakouts_found is 0.
C2_FailuresAbsorbed ==
    IsScan =>
        /\ response.status = "success"
        /\ response.stocks_scanned = Len(calls)
        /\ \A i \in 1..Len(calls) :
              Failed(calls[i]) => calls[i].frame.returned = None
        /\ Results = WithoutFailures
        /\ (\A i \in 1..Len(calls) : Failed(calls[i])) =>
              Results = <<>> /\ response.breakouts_found = 0

C2_Witness ==
    /\ IsScan
    /\ \E i \in 1..Len(calls) : calls[i].answer.raises
    /\ \E i \in 1..Len(calls) : ~ Failed(calls[i])
    /\ Results # <<>>
    /\ response.stocks_scanned > response.breakouts_found

\* the provider returned fewer than 50 bars
Short(c) == ~ c.answer.raises /\ c.answer.bars < MinBars

\* C3: a series of fewer than 50 bars makes analyze_stock return None with no
\* indicator computed, and gives no entry in results whatever min_signals is.
C3_ShortSeriesSkipped ==
    IsScan =>
        /\ \A i \in 1..Len(calls) :
              Short(calls[i]) =>
                  calls[i].frame.latest = None /\ calls[i].frame.returned = None
        /\ Len(Results) <= Cardinality({i \in 1..Len(calls) : ~ Short(calls[i])})

C3_Witness ==
    /\ IsScan
    /\ Threshold < 0
    /\ \E i \in 1..Len(calls) : Short(calls[i]) /\ calls[i].answer.bars = MinBars - 1
    /\ Results = <<>>

\* C4: every entry of results has signal_count >= min_signals, and with
\* min_signals above 5 results is empty.
C4_ThresholdRespected ==
    IsScan =>
        /\ \A i \in 1..Len(Results) : Results[i].signal_count >= Threshold
        /\ Threshold > 5 => Results = <<>>

C4_Witness ==
    /\ IsScan
    /\ Threshold = 6
    /\ \E i \in 1..Len(calls) :
          /\ calls[i].frame.returned # None
          /\ calls[i].frame.returned.signal_count = 5
    /\ Results = <<>>

RuleNames ==
    << "Price above EMA 20", "Bullish EMA alignment", "RSI in healthy range",
       "MACD bullish crossover", "High volume breakout" >>

\* the sum of the volumes of the trailing 20 bars of an answer's series
Last20Volume(answer) ==
    LET S[i \in (answer.bars - 20)..answer.bars] ==
            IF i = answer.bars - 20 THEN 0 ELSE S[i - 1] + VolumeAt(answer, i)
    IN  S[answer.bars]

\* latestVolume > 1.5 * (sum of the trailing 20 volumes / 20), in whole numbers
VolumeExceeds(c) ==
    40 * c.frame.latest.Volume > 3 * Last20Volume(c.answer)

\* rule k of the rule set holds of the latest row of call c
RuleHolds(k, c) ==
    LET l == c.frame.latest
    IN  CASE k = 1 -> l.Close > l.EMA_20
          [] k = 2 -> l.EMA_20 > l.EMA_50 /\ l.EMA_50 > l.EMA_200
          [] k = 3 -> /\ l.RSI.k = "fin"
                      /\ 30 * Scale < l.RSI.v
                      /\ l.RSI.v < 70 * Scale
          [] k = 4 -> l.MACD > l.Signal
          [] k = 5 -> VolumeExceeds(c)

NamesOfRulesHolding(c) ==
    LET ks == SelectSeq(<<1, 2, 3, 4, 5>>, LAMBDA k : RuleHolds(k, c))
    IN  [i \in 1..Len(ks) |-> RuleNames[ks[i]]]

\* C5: signals is the list of the names of the rules that hold, in rule
\* order and without repetition, and signal_count is its length, in 0..5.
C5_SignalsAreRulesHolding ==
    IsScan =>
        \A i \in 1..Len(calls) :
            calls[i].frame.returned # None =>
                LET a == calls[i].frame.returned
                IN  /\ a.signals = NamesOfRulesHolding(calls[i])
                    /\ a.signal_count = Len(a.signals)
                    /\ a.signal_count \in 0..5
                    /\ Cardinality(Range(a.signals)) = Len(a.signals)

C5_Witness ==
    /\ IsScan
    /\ \E i \in 1..Len(calls) :
          /\ calls[i].frame.returned # None
          /\ calls[i].frame.returned.signals =
                 <<"Price above EMA 20", "RSI in healthy range",
                   "High volume breakout">>
          /\ calls[i].frame.returned.signal_count = 3

EndsWith(s, sub) ==
    Len(s) >= Len(sub) /\ SubSeq(s, Len(s) - Len(sub) + 1, Len(s)) = sub

\* C6: a present `symbols` parameter is split on commas, each piece trimmed
\* and upper-cased, and '.NS' appended to a piece that does not end with it,
\* so that every symbol scanned ends with '.NS' and a piece ending with '.NS'
\* is scanned unchanged; an absent parameter scans the default list.
C6_SuffixOnEverySymbol ==
    IsScan =>
        LET text    == request.args.symbols
            scanned == [i \in 1..Len(calls) |-> calls[i].symbol]
        IN  IF text # <<>>
            THEN LET pieces == Split(text, ",")
                 IN  /\ Len(scanned) = Len(pieces)
                     /\ \A i \in 1..Len(pieces) :
                           LET piece == Upper(Strip(pieces[i]))
                           IN  /\ EndsWith(scanned[i], Suffix)
                               /\ scanned[i] = IF EndsWith(piece, Suffix)
                                               THEN piece
                                               ELSE piece \o Suffix
            ELSE scanned = DefaultStockList

\* the trailing 14 close-to-close changes of the series are all positive
TrailingGainsOnly(c) ==
    /\ ~ c.answer.raises
    /\ c.answer.bars >= MinBars
    /\ \A j \in (c.answer.bars - RsiPeriod + 1)..c.answer.bars :
          ChangeAt(c.answer, j) > 0

OtherRulesUnaffected(c) ==
    \A k \in {1, 2, 4, 5} :
        (RuleNames[k] \in Range(c.frame.returned.signals)) <=> RuleHolds(k, c)

\* C7 as stated: when the trailing 14 changes are all positive the RSI is
\* undefined, the RSI rule is false, analyze_stock still returns a result and
\* the other four rules are as their own inputs make them.
C7_RsiUndefinedOnGainsOnly ==
    IsScan =>
        \A i \in 1..Len(calls) :
            TrailingGainsOnly(calls[i]) =>
                /\ calls[i].frame.returned # None
                /\ calls[i].frame.latest.RSI = NaN
                /\ "RSI in healthy range" \notin Range(calls[i].frame.returned.signals)
                /\ OtherRulesUnaffected(calls[i])

\* C7 amended: when the trailing 14 changes are all positive the RSI is 100
\* (the mean gain over a zero mean loss is +infinity, not an error and not
\* NaN), the RSI rule is false, analyze_stock still returns a result and the
\* other four rules are as their own inputs make them.
C7_RsiIs100OnGainsOnly ==
    IsScan =>
        \A i \in 1..Len(calls) :
            TrailingGainsOnly(calls[i]) =>
                /\ calls[i].frame.returned # None
                /\ calls[i].frame.latest.RSI = Fin(100 * Scale)
                /\ calls[i].frame.returned.rsi = Fin(100 * 100)
                /\ "RSI in healthy range" \notin Range(calls[i].frame.returned.signals)
                /\ OtherRulesUnaffected(calls[i])

C7_Witness ==
    /\ IsScan
    /\ \E i \in 1..Len(calls) :
          /\ TrailingGainsOnly(calls[i])
          /\ calls[i].frame.returned # None
          /\ "Price above EMA 20" \in Range(calls[i].frame.returned.signals)
          /\ "High volume breakout" \in Range(calls[i].frame.returned.signals)
          /\ calls[i].frame.returned.signal_count = 4

\* C8: the volume rule triggers exactly when the latest volume exceeds 1.5
\* times the mean volume of the trailing 20 bars, the latest included; with a
\* mean of 1000 a latest volume of 1501 triggers it and 1500 does not.
C8_VolumeRuleStrict ==
    IsScan =>
        \A i \in 1..Len(calls) :
            calls[i].frame.returned # None =>
                LET triggered == "High volume breakout"
                                     \in Range(calls[i].frame.returned.signals)
                    volume    == calls[i].frame.latest.Volume
                    mean1000  == Last20Volume(calls[i].answer) = 20 * 1000
                IN  /\ triggered <=> VolumeExceeds(calls[i])
                    /\ mean1000 /\ volume = 1501 => triggered
                    /\ mean1000 /\ volume = 1500 => ~ triggered

C8_Witness ==
    /\ IsScan
    /\ \E i \in 1..Len(calls) :
          /\ calls[i].frame.returned # None
          /\ Last20Volume(calls[i].answer) = 20 * 1000
          /\ calls[i].frame.latest.Volume = 1501
          /\ calls[i].frame.returned.avg_volume = 1000
          /\ "High volume breakout" \in Range(calls[i].frame.returned.signals)

\* a scan response without its wall-clock fields
Timeless(r) ==
    [r EXCEPT !.scan_time = 0,
              !.results = [i \in 1..Len(@) |-> [@[i] EXCEPT !.timestamp = 0]]]

\* C9: no request changes the default symbol list, and a scan request sent
\* again with the same parameters and the same provider data gets the same
\* response, whatever was served before it.
C9_NoSharedState ==
    [][ /\ DEFAULT_STOCKS' = DefaultStockList
        /\ (/\ request.endpoint = "/breakout_scan"
            /\ request' = request
            /\ clock' # clock)
               => Timeless(response') = Timeless(response)
        /\ request'.endpoint = "/" => response' = HomeResponse ]_vars

\* the default list scanned a second time, its results sorted into another
\* order than the list's
C9_Witness ==
    /\ IsScan
    /\ clock >= 2
    /\ request.args.symbols = <<>>
    /\ Len(Results) = 20
    /\ Results[1].symbol # DefaultStockList[1]
    /\ DEFAULT_STOCKS = DefaultStockList

\* the number of symbols a raw `symbols` parameter lists
Occurrences(text) ==
    IF text = <<>> THEN Len(DefaultStockList)
    ELSE 1 + Cardinality({i \in 1..Len(text) : text[i] = ","})

\* C10: every occurrence of a symbol is analysed, results holds one entry per
\* occurrence whose analysis succeeded with signal_count >= min_signals,
\* stocks_scanned is the number of occurrences, breakouts_found is the length
\* of results and at most stocks_scanned, and min_signals echoes the threshold.
C10_OneEntryPerOccurrence ==
    IsScan =>
        /\ Len(calls) = Occurrences(request.args.symbols)
        /\ response.stocks_scanned = Occurrences(request.args.symbols)
        /\ Len(Results) = Len(QualifyingInOrder)
        /\ \A r \in Range(Results) \cup Range(QualifyingInOrder) :
              Copies(Results, r) = Copies(QualifyingInOrder, r)
        /\ response.breakouts_found = Len(Results)
        /\ response.breakouts_found <= response.stocks_scanned
        /\ response.min_signals = IF request.args.min_signals = <<>>
                                  THEN 2
                                  ELSE request.args.min_signals[1]

\* a symbol listed twice, every analysis without a signal, threshold 0
C10_Witness ==
    /\ IsScan
    /\ Threshold = 0
    /\ response.stocks_scanned = 3
    /\ Len(Results) = 3
    /\ Results[1] = Results[3]
    /\ Results[1].symbol = <<"B", ".", "N", "S">>
    /\ Results[2].symbol = <<"A", ".", "N", "S">>
    /\ Results[1].signal_count = 0

=============================================================================
